---- MODULE Spec2Model ----
(***************************************************************************)
(* Model of the AgentGateway web interface (mcp_gateway/main.py) and of    *)
(* the Context7 MCP placeholder service (services/context7-mcp/main.py).  *)
(*                                                                         *)
(* Caller-supplied strings are sequences of one-character strings, so     *)
(* that interpolation is concatenation and "contains" is a real substring *)
(* test.  Literal text of the program is kept as whole fragments.         *)
(* One action handles one HTTP request from routing to the response.      *)
(***************************************************************************)
EXTENDS Integers, Sequences, FiniteSets, TLC

VARIABLES
    AGENTGATEWAY_AVAILABLE, \* main.py:14-21, the module-level flag
    request,                \* the request served last
    response,               \* the response to it
    chatLocals              \* what the chat handler's body did while serving it

vars == <<AGENTGATEWAY_AVAILABLE, request, response, chatLocals>>

(* Longest message a caller sends in the model. *)
MaxMsgLen == 2

\* ------------------------------------------------------------------ strings

SeqsUpTo(S, n) == UNION {[1..k -> S] : k \in 0..n}

Contains(s, sub) ==
    \E i \in 1..(Len(s) - Len(sub) + 1) : SubSeq(s, i, i + Len(sub) - 1) = sub

S_openai    == <<"o","p","e","n","a","i">>
S_anthropic == <<"a","n","t","h","r","o","p","i","c">>
S_groq      == <<"g","r","o","q">>
S_bedrock   == <<"b","e","d","r","o","c","k">>
S_mistral   == <<"m","i","s","t","r","a","l">>
S_Groq      == <<"G","r","o","q">>
S_llama     == <<"l","l","a","m","a">>
S_gpt35     == <<"g","p","t","-","3",".","5","-","t","u","r","b","o">>

MsgAlphabet == {"h", "i"}
Messages    == SeqsUpTo(MsgAlphabet, MaxMsgLen)
KnownTypes  == {S_openai, S_anthropic, S_groq, S_bedrock}
AgentTypes  == KnownTypes \cup {S_mistral, S_Groq}
Models      == {S_llama}

\* ------------------------------------------------------- the page template

(* HTML_TEMPLATE, cut at the characters str.format gives a meaning to      *)
(* ("{", "}", ":", "!"); runs of white space are one blank and the emoji   *)
(* are left out.                                                           *)
HTML_TEMPLATE == <<
    " <", "!",
    "DOCTYPE html> <html lang=\"en\"> <head> <meta charset=\"UTF-8\"> <meta name=\"viewport\" content=\"width=device-width, initial-scale=1.0\"> <title>AgentGateway - ",
    "{", "title", "}", "</title> <style> * ", "{", " margin", ":", " 0; padding", ":",
    " 0; box-sizing", ":", " border-box; ", "}", " body ", "{", " font-family", ":",
    " -apple-system, BlinkMacSystemFont, 'Segoe UI', system-ui, sans-serif; background", ":",
    " #f5f5f7; color", ":", " #1d1d1f; line-height", ":", " 1.6; ", "}", " .container ", "{",
    " max-width", ":", " 1200px; margin", ":", " 0 auto; padding", ":", " 20px; ", "}",
    " .header ", "{", " background", ":", " #fff; border-radius", ":", " 12px; padding", ":",
    " 24px; margin-bottom", ":", " 24px; box-shadow", ":", " 0 4px 16px rgba(0,0,0,0.1); ", "}",
    " .header h1 ", "{", " color", ":", " #007AFF; margin-bottom", ":", " 8px; ", "}", " .nav ",
    "{", " display", ":", " flex; gap", ":", " 12px; margin-bottom", ":", " 24px; ", "}",
    " .nav a ", "{", " background", ":", " #007AFF; color", ":", " white; padding", ":",
    " 12px 20px; border-radius", ":", " 8px; text-decoration", ":", " none; transition", ":",
    " all 0.2s; ", "}", " .nav a", ":", "hover ", "{", " background", ":", " #0056b3; transform",
    ":", " translateY(-1px); ", "}", " .nav a.active ", "{", " background", ":", " #0056b3; ", "}",
    " .card ", "{", " background", ":", " #fff; border-radius", ":", " 12px; padding", ":",
    " 24px; margin-bottom", ":", " 24px; box-shadow", ":", " 0 2px 8px rgba(0,0,0,0.1); ", "}",
    " .status ", "{", " display", ":", " inline-block; padding", ":", " 4px 12px; border-radius",
    ":", " 20px; font-size", ":", " 14px; font-weight", ":", " 500; ", "}", " .status.healthy ",
    "{", " background", ":", " #d4edda; color", ":", " #155724; ", "}", " .status.error ", "{",
    " background", ":", " #f8d7da; color", ":", " #721c24; ", "}", " .metrics-grid ", "{",
    " display", ":", " grid; grid-template-columns", ":",
    " repeat(auto-fit, minmax(200px, 1fr)); gap", ":", " 16px; margin", ":", " 20px 0; ", "}",
    " .metric ", "{", " background", ":", " #f8f9fa; padding", ":", " 16px; border-radius", ":",
    " 8px; text-align", ":", " center; ", "}", " .metric-value ", "{", " font-size", ":",
    " 24px; font-weight", ":", " bold; color", ":", " #007AFF; ", "}", " .playground-form ", "{",
    " display", ":", " flex; flex-direction", ":", " column; gap", ":", " 16px; ", "}",
    " .playground-form input, .playground-form select, .playground-form textarea ", "{",
    " padding", ":", " 12px; border", ":", " 1px solid #ddd; border-radius", ":",
    " 8px; font-size", ":", " 16px; ", "}", " .playground-form button ", "{", " background", ":",
    " #007AFF; color", ":", " white; padding", ":", " 12px 24px; border", ":",
    " none; border-radius", ":", " 8px; font-size", ":", " 16px; cursor", ":", " pointer; ", "}",
    " .playground-form button", ":", "hover ", "{", " background", ":", " #0056b3; ", "}",
    " .response-box ", "{", " background", ":", " #f8f9fa; border-radius", ":", " 8px; padding",
    ":", " 16px; margin-top", ":", " 16px; border-left", ":", " 4px solid #007AFF; white-space",
    ":", " pre-wrap; font-family", ":", " monospace; ", "}", " .agent-list ", "{", " display", ":",
    " grid; gap", ":", " 12px; ", "}", " .agent-item ", "{", " background", ":",
    " #f8f9fa; padding", ":", " 16px; border-radius", ":", " 8px; border-left", ":",
    " 4px solid #007AFF; ", "}",
    " </style> </head> <body> <div class=\"container\"> <div class=\"header\"> <h1> AgentGateway Web Interface</h1> <p>Web interface for AgentGateway library - Version 1.0.0</p> </div> <nav class=\"nav\"> <a href=\"/\" ",
    "{", "home_active", "}", "> Dashboard</a> <a href=\"/playground\" ", "{", "playground_active",
    "}", "> Playground</a> <a href=\"/agents\" ", "{", "agents_active", "}",
    "> Agents</a> <a href=\"/tools\" ", "{", "tools_active", "}",
    "> Tools</a> </nav> <div class=\"card\"> ", "{", "content", "}",
    " </div> </div> </body> </html> "
>>

\* ------------------------------------------------------------- str.format

(* Index of the "}" that closes the replacement field opened just before   *)
(* position k, counting nested braces; 0 when the field is never closed.   *)
RECURSIVE FieldEnd(_, _, _)
FieldEnd(t, k, depth) ==
    IF k > Len(t) THEN 0
    ELSE IF t[k] = "{" THEN FieldEnd(t, k + 1, depth + 1)
    ELSE IF t[k] = "}" THEN (IF depth = 0 THEN k ELSE FieldEnd(t, k + 1, depth - 1))
    ELSE FieldEnd(t, k + 1, depth)

(* The field name: the text between "{" at i and the first ":" or "!" or   *)
(* the closing "}" at j.                                                   *)
FieldName(t, i, j) ==
    IF i + 1 < j /\ t[i + 1] \notin {":", "!"} THEN t[i + 1] ELSE ""

FieldHasSpec(t, i, j) == \E k \in (i + 1)..(j - 1) : t[k] \in {":", "!"}

(* str.format with keyword arguments kw: "{{" and "}}" are literal         *)
(* braces, "{name}" is kw[name], a name kw lacks raises KeyError, an empty *)
(* name asks for positional argument 0 and raises IndexError, a lone "}"   *)
(* or an unclosed "{" raises ValueError.  A conversion or format           *)
(* specification after a known name is taken to be rejected for a str     *)
(* value (ValueError); the template has none after a known name.           *)
RECURSIVE FormatFrom(_, _, _, _)
FormatFrom(t, i, kw, out) ==
    IF i > Len(t) THEN [ok |-> TRUE, out |-> out, exc |-> "none"]
    ELSE IF t[i] = "{" THEN
        IF i < Len(t) /\ t[i + 1] = "{" THEN FormatFrom(t, i + 2, kw, Append(out, "{"))
        ELSE LET j == FieldEnd(t, i + 1, 0) IN
             IF j = 0 THEN [ok |-> FALSE, out |-> out, exc |-> "ValueError"]
             ELSE LET name == FieldName(t, i, j) IN
                  IF name = "" THEN [ok |-> FALSE, out |-> out, exc |-> "IndexError"]
                  ELSE IF name \notin DOMAIN kw
                       THEN [ok |-> FALSE, out |-> out, exc |-> "KeyError"]
                  ELSE IF FieldHasSpec(t, i, j)
                       THEN [ok |-> FALSE, out |-> out, exc |-> "ValueError"]
                  ELSE FormatFrom(t, j + 1, kw, out \o kw[name])
    ELSE IF t[i] = "}" THEN
        IF i < Len(t) /\ t[i + 1] = "}" THEN FormatFrom(t, i + 2, kw, Append(out, "}"))
        ELSE [ok |-> FALSE, out |-> out, exc |-> "ValueError"]
    ELSE FormatFrom(t, i + 1, kw, Append(out, t[i]))

Format(t, kw) == FormatFrom(t, 1, kw, <<>>)

\* --------------------------------------------------------------- responses

HTMLResponse(html) == [code |-> 200, kind |-> "html", body |-> [html |-> html]]

JSONResponse(content) == [code |-> 200, kind |-> "json", body |-> content]

(* raise HTTPException(status_code, detail) *)
HTTPException(status_code, detail) ==
    [code |-> status_code, kind |-> "error", body |-> [detail |-> detail]]

(* An exception that leaves a handler: the server answers 500. *)
Unhandled(exc) == [code |-> 500, kind |-> "unhandled", body |-> [exc |-> exc]]

(* The body did not validate as the handler's ChatRequest parameter: the   *)
(* framework answers 422 and the handler is not called.                    *)
RequestValidationError ==
    [code |-> 422, kind |-> "validation", body |-> [detail |-> <<"field required">>]]

\* ------------------------------------------------------------------- pages

dashboard ==
    HTMLResponse(<<"<!DOCTYPE html> <html> <head><title>AgentGateway</title></head>",
                   "<h1>AgentGateway Web Interface</h1>", "<p>Status: Available</p>",
                   "<a href=\"/health\">Health Check</a>",
                   "<a href=\"/api/docs\">API Documentation</a>",
                   "<a href=\"/api/agents\">List Agents</a>", "</html>">>)

playground ==
    HTMLResponse(<<"<!DOCTYPE html> <html> <head> <title>AgentGateway Playground</title>",
                   "<h1>AgentGateway Playground</h1>",
                   "<form onsubmit=\"sendMessage(event)\">",
                   "<select name=\"agent_type\" id=\"agent_type\">",
                   "<input type=\"text\" name=\"model\" id=\"model\" value=\"gpt-3.5-turbo\">",
                   "<textarea name=\"message\" id=\"message\">", "</form>",
                   "<script> fetch('/api/chat') </script>", "</html>">>)

ErrorPanel == "<div style=\"background: #f8d7da\">AgentGateway library not available.</div>"

AgentListing ==
    <<"<div class=\"agent-list\">", "<h4>OpenAI GPT Agent</h4>",
      "<h4>Anthropic Claude Agent</h4>", "<h4>Groq Agent</h4>", "<h4>AWS Bedrock Agent</h4>",
      "<h4>Fireworks AI Agent</h4>", "<h4>Together AI Agent</h4>", "</div>">>

ToolListing ==
    <<"<div class=\"agent-list\">", "<h4>Web Search Tool</h4>", "<h4>Calculator Tool</h4>",
      "<h4>Weather Tool</h4>", "<h4>Translation Tool</h4>",
      "<h4>Sentiment Analysis Tool</h4>", "<h4>Text Summarization Tool</h4>",
      "<h4>Topic Detection Tool</h4>", "<h4>Ask User Tool</h4>", "</div>">>

(* The content string the agents handler builds before rendering. *)
agents_content(available) ==
    <<"<h2>Available Agents</h2>",
      "<p>AgentGateway supports multiple AI providers and models.</p>">>
    \o (IF ~available THEN <<ErrorPanel>> ELSE AgentListing)

(* The content string the tools handler builds: it does not read the flag. *)
tools_content ==
    <<"<h2>Built-in Tools</h2>",
      "<p>AgentGateway includes various tools for enhanced agent capabilities.</p>">>
    \o ToolListing

Render(title, content, agents_active, tools_active) ==
    LET r == Format(HTML_TEMPLATE,
                    [title |-> <<title>>, content |-> content, home_active |-> <<>>,
                     playground_active |-> <<>>, agents_active |-> agents_active,
                     tools_active |-> tools_active])
    IN IF r.ok THEN HTMLResponse(r.out) ELSE Unhandled(r.exc)

agents(available) ==
    Render("Agents", agents_content(available), <<"class=\"active\"">>, <<>>)

tools == Render("Tools", tools_content, <<>>, <<"class=\"active\"">>)

\* --------------------------------------------------------------- JSON APIs

(* health_check reporting "healthy" without reading the flag. *)
health_check_alwaysHealthy(available) ==
    JSONResponse([status |-> "healthy",
                  agentgateway_available |-> available,
                  version |-> "1.0.0"])

health_check(available) ==
    JSONResponse([status |-> IF available THEN "healthy" ELSE "limited",
                  agentgateway_available |-> available,
                  version |-> "1.0.0"])

(* list_agents without its availability check. *)
list_agents_noCheck(available) ==
    JSONResponse(
      [agents |-> <<[id |-> S_openai, name |-> "OpenAI GPT",
                     description |-> "OpenAI GPT models"],
                    [id |-> S_anthropic, name |-> "Anthropic Claude",
                     description |-> "Claude models"],
                    [id |-> S_groq, name |-> "Groq", description |-> "Groq LPU models"],
                    [id |-> S_bedrock, name |-> "AWS Bedrock",
                     description |-> "Bedrock models"]>>,
       available |-> TRUE])

list_agents(available) ==
    IF ~available THEN JSONResponse([agents |-> <<>>, available |-> FALSE])
    ELSE JSONResponse(
           [agents |-> <<[id |-> S_openai, name |-> "OpenAI GPT",
                          description |-> "OpenAI GPT models"],
                         [id |-> S_anthropic, name |-> "Anthropic Claude",
                          description |-> "Claude models"],
                         [id |-> S_groq, name |-> "Groq", description |-> "Groq LPU models"],
                         [id |-> S_bedrock, name |-> "AWS Bedrock",
                          description |-> "Bedrock models"]>>,
            available |-> TRUE])

\* -------------------------------------------------------------------- chat

(* A request body: a JSON object with some of the three keys, or something *)
(* that is not a JSON object.                                              *)
JsonObject(keys, m, a, mo) ==
    [kind |-> "object",
     fields |-> [k \in keys |-> CASE k = "message" -> m
                                  [] k = "agent_type" -> a
                                  [] OTHER -> mo]]

NotAnObject == [kind |-> "other", fields |-> <<>>]

NoBody == [kind |-> "none", fields |-> <<>>]

(* class ChatRequest(BaseModel): message is required, the other two fields *)
(* have defaults.                                                          *)
ChatRequest(body) ==
    IF body.kind # "object" \/ "message" \notin DOMAIN body.fields
    THEN [valid |-> FALSE, message |-> <<>>, agent_type |-> <<>>, model |-> <<>>]
    ELSE [valid |-> TRUE,
          message |-> body.fields["message"],
          agent_type |-> IF "agent_type" \in DOMAIN body.fields
                         THEN body.fields["agent_type"] ELSE S_openai,
          model |-> IF "model" \in DOMAIN body.fields
                    THEN body.fields["model"] ELSE S_gpt35]

(* What a call into the external library does: it returns, or it raises an *)
(* Exception with some text.  The library is not part of the repository.   *)
Returns == [raised |-> FALSE, text |-> <<>>]
Raises(text) == [raised |-> TRUE, text |-> text]
CtorOutcomes   == {Returns, Raises(<<"AgentGateway() failed">>)}
LookupOutcomes == {Returns, Raises(<<"AgentType has no such member">>), Raises(<<>>)}

(* agent_type_map[request.agent_type] with no default for an unknown type. *)
agent_type_map_strict(agent_type) ==
    IF agent_type = S_openai THEN "OPENAI_GPT"
    ELSE IF agent_type = S_anthropic THEN "ANTHROPIC_CLAUDE"
    ELSE IF agent_type = S_groq THEN "GROQ"
    ELSE IF agent_type = S_bedrock THEN "BEDROCK_CONVERSE"
    ELSE "unset"

(* agent_type_map.get(request.agent_type, AgentType.OPENAI_GPT) *)
agent_type_map(agent_type) ==
    IF agent_type = S_openai THEN "OPENAI_GPT"
    ELSE IF agent_type = S_anthropic THEN "ANTHROPIC_CLAUDE"
    ELSE IF agent_type = S_groq THEN "GROQ"
    ELSE IF agent_type = S_bedrock THEN "BEDROCK_CONVERSE"
    ELSE "OPENAI_GPT"

(* The response text with the model left out. *)
response_text_noModel(req) ==
    <<"Mock response for '">> \o req.message \o <<"' using ">> \o req.agent_type

(* f"Mock response for '{message}' using {agent_type} model {model}" *)
response_text(req) ==
    <<"Mock response for '">> \o req.message \o <<"' using ">> \o req.agent_type
    \o <<" model ">> \o req.model

NotCalled == [entered |-> FALSE, ctor |-> Returns, lookup |-> Returns, agent_type |-> "unset"]

(* The chat handler's body, lines 335-367, for a validated request. *)
chat_locals(available, req, ctor, lookup) ==
    IF ~available THEN NotCalled
    ELSE IF ctor.raised
         THEN [entered |-> TRUE, ctor |-> ctor, lookup |-> Returns, agent_type |-> "unset"]
    ELSE IF lookup.raised
         THEN [entered |-> TRUE, ctor |-> ctor, lookup |-> lookup, agent_type |-> "unset"]
    ELSE [entered |-> TRUE, ctor |-> ctor, lookup |-> lookup,
          agent_type |-> agent_type_map(req.agent_type)]

(* chat without the availability check at its head. *)
chat_noAvailabilityCheck(available, req, ctor, lookup) ==
    IF ctor.raised THEN HTTPException(500, <<"Error: ">> \o ctor.text)
    ELSE IF lookup.raised THEN HTTPException(500, <<"Error: ">> \o lookup.text)
    ELSE JSONResponse([response |-> response_text(req),
                       agent_type |-> req.agent_type,
                       model |-> req.model,
                       status |-> "success"])

(* chat reporting a failure with the bare exception text as detail. *)
chat_bareDetail(available, req, ctor, lookup) ==
    IF ~available THEN HTTPException(503, <<"AgentGateway library not available">>)
    ELSE IF ctor.raised THEN HTTPException(500, ctor.text)
    ELSE IF lookup.raised THEN HTTPException(500, lookup.text)
    ELSE JSONResponse([response |-> response_text(req),
                       agent_type |-> req.agent_type,
                       model |-> req.model,
                       status |-> "success"])

(* chat entering its try block before it checks the flag. *)
chat_tryFirst(available, req, ctor, lookup) ==
    IF ctor.raised THEN HTTPException(500, <<"Error: ">> \o ctor.text)
    ELSE IF ~available THEN HTTPException(503, <<"AgentGateway library not available">>)
    ELSE IF lookup.raised THEN HTTPException(500, <<"Error: ">> \o lookup.text)
    ELSE JSONResponse([response |-> response_text(req),
                       agent_type |-> req.agent_type,
                       model |-> req.model,
                       status |-> "success"])

chat(available, req, ctor, lookup) ==
    IF ~available THEN HTTPException(503, <<"AgentGateway library not available">>)
    ELSE IF ctor.raised THEN HTTPException(500, <<"Error: ">> \o ctor.text)
    ELSE IF lookup.raised THEN HTTPException(500, <<"Error: ">> \o lookup.text)
    ELSE JSONResponse([response |-> response_text(req),
                       agent_type |-> req.agent_type,
                       model |-> req.model,
                       status |-> "success"])

(* POST /api/chat as the application serves it: the body is validated into *)
(* the handler's parameter first, and the handler runs only if it is valid. *)
post_chat(available, body, ctor, lookup) ==
    LET req == ChatRequest(body) IN
    IF ~req.valid THEN RequestValidationError
    ELSE chat(available, req, ctor, lookup)

post_chat_locals(available, body, ctor, lookup) ==
    LET req == ChatRequest(body) IN
    IF ~req.valid THEN NotCalled ELSE chat_locals(available, req, ctor, lookup)

\* ------------------------------------------------- the Context7 service

(* The Context7 health check answering under another service name. *)
c7_health_check_renamed == JSONResponse([status |-> "healthy", service |-> "context7"])

c7_health_check == JSONResponse([status |-> "healthy", service |-> "context7-mcp"])

c7_mcp_capabilities ==
    JSONResponse([capabilities |-> <<"search", "upload", "index">>,
                  service |-> "context7-mcp"])

c7_root == JSONResponse([message |-> "Context7 MCP Service", version |-> "0.1.0"])

\* ----------------------------------------------------------------- actions

Req(service, route, body) == [service |-> service, route |-> route, body |-> body]

NoRequest == Req("none", "none", NoBody)
NoResponse == [code |-> 0, kind |-> "none", body |-> [detail |-> <<>>]]

(* What one served request leaves behind.  No handler assigns the flag. *)
Serve(req, resp, locals) ==
    /\ request' = req
    /\ response' = resp
    /\ chatLocals' = locals

(* The import at lines 14-21 has succeeded or failed by the time the app   *)
(* serves anything.                                                        *)
Init ==
    /\ AGENTGATEWAY_AVAILABLE \in BOOLEAN
    /\ request = NoRequest
    /\ response = NoResponse
    /\ chatLocals = NotCalled

GetDashboard ==
    /\ Serve(Req("gateway", "GET /", NoBody), dashboard, NotCalled)
    /\ UNCHANGED AGENTGATEWAY_AVAILABLE

GetPlayground ==
    /\ Serve(Req("gateway", "GET /playground", NoBody), playground, NotCalled)
    /\ UNCHANGED AGENTGATEWAY_AVAILABLE

GetAgents ==
    /\ Serve(Req("gateway", "GET /agents", NoBody), agents(AGENTGATEWAY_AVAILABLE),
             NotCalled)
    /\ UNCHANGED AGENTGATEWAY_AVAILABLE

GetTools ==
    /\ Serve(Req("gateway", "GET /tools", NoBody), tools, NotCalled)
    /\ UNCHANGED AGENTGATEWAY_AVAILABLE

GetHealth ==
    /\ Serve(Req("gateway", "GET /health", NoBody), health_check(AGENTGATEWAY_AVAILABLE),
             NotCalled)
    /\ UNCHANGED AGENTGATEWAY_AVAILABLE

GetApiAgents ==
    /\ Serve(Req("gateway", "GET /api/agents", NoBody),
             list_agents(AGENTGATEWAY_AVAILABLE), NotCalled)
    /\ UNCHANGED AGENTGATEWAY_AVAILABLE

ChatBodies ==
    {NotAnObject} \cup
    {JsonObject(keys, m, a, mo) :
        keys \in SUBSET {"message", "agent_type", "model"},
        m \in Messages, a \in AgentTypes, mo \in Models}

PostChat ==
    \E body \in ChatBodies, ctor \in CtorOutcomes, lookup \in LookupOutcomes :
        /\ Serve(Req("gateway", "POST /api/chat", body),
                 post_chat(AGENTGATEWAY_AVAILABLE, body, ctor, lookup),
                 post_chat_locals(AGENTGATEWAY_AVAILABLE, body, ctor, lookup))
        /\ UNCHANGED AGENTGATEWAY_AVAILABLE

C7Health ==
    /\ Serve(Req("context7", "GET /health", NoBody), c7_health_check, NotCalled)
    /\ UNCHANGED AGENTGATEWAY_AVAILABLE

C7Capabilities ==
    /\ Serve(Req("context7", "GET /mcp/capabilities", NoBody), c7_mcp_capabilities,
             NotCalled)
    /\ UNCHANGED AGENTGATEWAY_AVAILABLE

C7Root ==
    /\ Serve(Req("context7", "GET /", NoBody), c7_root, NotCalled)
    /\ UNCHANGED AGENTGATEWAY_AVAILABLE

Next ==
    \/ GetDashboard
    \/ GetPlayground
    \/ GetAgents
    \/ GetTools
    \/ GetHealth
    \/ GetApiAgents
    \/ PostChat
    \/ C7Health
    \/ C7Capabilities
    \/ C7Root

Spec == Init /\ [][Next]_vars

\* ------------------------------------------------------ reading a state

Route(r) == request.service = "gateway" /\ request.route = r

IsChat == Route("POST /api/chat")

(* The body of the served chat request carries key k. *)
Sent(k) == request.body.kind = "object" /\ k \in DOMAIN request.body.fields

BodyValid == Sent("message")

LibraryRaised == chatLocals.ctor.raised \/ chatLocals.lookup.raised

RaisedText == IF chatLocals.ctor.raised THEN chatLocals.ctor.text ELSE chatLocals.lookup.text

IsPage == \E r \in {"GET /", "GET /playground", "GET /agents", "GET /tools"} : Route(r)

Shows(fragment) ==
    /\ response.kind = "html"
    /\ \E i \in 1..Len(response.body.html) : response.body.html[i] = fragment

\* ---------------------------------------------------------------------- C1

(* C1 as stated: while the flag is false, POST /api/chat answers 503 for   *)
(* every body, valid or not.                                               *)
C1_Always503 == (IsChat /\ ~AGENTGATEWAY_AVAILABLE) => response.code = 503

(* C1 amended: while the flag is false, POST /api/chat answers 503 with    *)
(* the fixed detail for every body that validates as a ChatRequest, and    *)
(* 422 for every body that does not; no other status is produced.          *)
C1_503WhenValid ==
    (IsChat /\ ~AGENTGATEWAY_AVAILABLE) =>
        IF BodyValid
        THEN /\ response.code = 503
             /\ response.body.detail = <<"AgentGateway library not available">>
        ELSE response.code = 422

C1_Witness ==
    /\ IsChat /\ ~AGENTGATEWAY_AVAILABLE /\ BodyValid
    /\ ~Sent("agent_type") /\ request.body.fields["message"] = <<"h", "i">>
    /\ response.code = 503

\* ---------------------------------------------------------------------- C2

(* C2: each of the four GET page routes answers 200 with a non-empty HTML  *)
(* body, for both values of the flag.                                      *)
C2_PagesRender ==
    IsPage => /\ response.code = 200
              /\ response.kind = "html"
              /\ Len(response.body.html) > 0

\* ---------------------------------------------------------------------- C3

(* The response of a successful chat carries what the caller sent. *)
EchoesCaller ==
    /\ response.kind = "json"
    /\ response.body.status = "success"
    /\ \A k \in DOMAIN request.body.fields :
          Contains(response.body.response, request.body.fields[k])
    /\ Sent("agent_type") => response.body.agent_type = request.body.fields["agent_type"]
    /\ Sent("model") => response.body.model = request.body.fields["model"]

(* C3 as stated: with the dependency present every valid chat request      *)
(* answers 200, whatever the external library does, and the response       *)
(* carries the caller's message, agent_type and model.                     *)
C3_Always200 ==
    (IsChat /\ AGENTGATEWAY_AVAILABLE /\ BodyValid) =>
        (response.code = 200 /\ EchoesCaller)

(* C3 amended: with the dependency present a valid chat request answers    *)
(* 200 exactly when neither the AgentGateway constructor nor the AgentType *)
(* lookup raises; the 200 response then contains the caller's message,     *)
(* agent_type and model as substrings, echoes agent_type and model         *)
(* unchanged and has status "success".                                     *)
C3_200UnlessLibraryRaises ==
    (IsChat /\ AGENTGATEWAY_AVAILABLE /\ BodyValid) =>
        /\ (response.code = 200) <=> ~LibraryRaised
        /\ (response.code = 200) => EchoesCaller

C3_Witness ==
    /\ IsChat /\ AGENTGATEWAY_AVAILABLE
    /\ Sent("message") /\ Sent("agent_type") /\ Sent("model")
    /\ request.body.fields["message"] = <<"h", "i">>
    /\ request.body.fields["agent_type"] = S_groq
    /\ request.body.fields["model"] = S_llama
    /\ response.code = 200
    /\ response.body.response =
         <<"Mock response for '", "h", "i", "' using ", "g", "r", "o", "q", " model ",
           "l", "l", "a", "m", "a">>

\* ---------------------------------------------------------------------- C4

(* A failure inside the handler's try block is reported as 500 with the    *)
(* exception text after "Error: ".                                         *)
FailureIs500 ==
    (IsChat /\ AGENTGATEWAY_AVAILABLE /\ BodyValid /\ LibraryRaised) =>
        /\ response.code = 500
        /\ response.kind = "error"
        /\ response.body.detail = <<"Error: ">> \o RaisedText

(* C4 as stated: a failure while the response is built is a 500 with       *)
(* "Error: " and the exception text, and the only outcomes of              *)
(* POST /api/chat are 200, 503 and 500.                                    *)
C4_OnlyThreeOutcomes ==
    /\ FailureIs500
    /\ IsChat => response.code \in {200, 503, 500}

(* C4 amended: an Exception raised while the response is built is a 500    *)
(* with "Error: " and the exception text, never 200 or 503 and never       *)
(* uncaught; the only outcomes of a chat request whose body validates are  *)
(* 200, 503 and 500, and a body that does not validate is answered 422     *)
(* before the handler runs.                                                *)
C4_OutcomesOfValidChat ==
    /\ FailureIs500
    /\ (IsChat /\ BodyValid) => (response.code \in {200, 503, 500} /\ response.kind # "unhandled")
    /\ (IsChat /\ ~BodyValid) => response.code = 422

C4_Witness ==
    /\ IsChat /\ AGENTGATEWAY_AVAILABLE /\ BodyValid
    /\ ~chatLocals.ctor.raised /\ chatLocals.lookup.raised
    /\ response.code = 500
    /\ response.body.detail = <<"Error: ", "AgentType has no such member">>

\* ---------------------------------------------------------------------- C5

(* C5: GET /health answers "healthy" exactly when the flag is true and     *)
(* "limited" exactly when it is false, with the flag and version "1.0.0".  *)
C5_HealthFollowsFlag ==
    Route("GET /health") =>
        /\ response.code = 200
        /\ (response.body.status = "healthy") <=> AGENTGATEWAY_AVAILABLE
        /\ (response.body.status = "limited") <=> ~AGENTGATEWAY_AVAILABLE
        /\ response.body.agentgateway_available = AGENTGATEWAY_AVAILABLE
        /\ response.body.version = "1.0.0"

C5_Witness ==
    /\ Route("GET /health") /\ ~AGENTGATEWAY_AVAILABLE
    /\ response.body.status = "limited"

\* ---------------------------------------------------------------------- C6

(* C6: GET /api/agents answers the empty list and available false when the *)
(* flag is false, and otherwise available true with exactly the four       *)
(* descriptors openai, anthropic, groq, bedrock, each with id, name and    *)
(* description.                                                            *)
C6_AgentCatalog ==
    Route("GET /api/agents") =>
        /\ response.code = 200
        /\ response.body.available = AGENTGATEWAY_AVAILABLE
        /\ (Len(response.body.agents) > 0) <=> AGENTGATEWAY_AVAILABLE
        /\ ~AGENTGATEWAY_AVAILABLE => response.body = [agents |-> <<>>, available |-> FALSE]
        /\ AGENTGATEWAY_AVAILABLE =>
              /\ Len(response.body.agents) = 4
              /\ [i \in 1..4 |-> response.body.agents[i].id]
                   = <<S_openai, S_anthropic, S_groq, S_bedrock>>
              /\ \A i \in 1..4 :
                    DOMAIN response.body.agents[i] = {"id", "name", "description"}

C6_Witness ==
    /\ Route("GET /api/agents") /\ AGENTGATEWAY_AVAILABLE
    /\ Len(response.body.agents) = 4

\* ---------------------------------------------------------------------- C7

(* C7: the /agents page and the /tools page each show the error panel      *)
(* instead of the listing when the flag is false, and the listing when it  *)
(* is true.                                                                *)
C7_PagesFollowFlag ==
    /\ Route("GET /agents") =>
          /\ Shows(ErrorPanel) <=> ~AGENTGATEWAY_AVAILABLE
          /\ Shows("<h4>Groq Agent</h4>") <=> AGENTGATEWAY_AVAILABLE
    /\ Route("GET /tools") =>
          /\ Shows(ErrorPanel) <=> ~AGENTGATEWAY_AVAILABLE
          /\ Shows("<h4>Calculator Tool</h4>") <=> AGENTGATEWAY_AVAILABLE

\* ---------------------------------------------------------------------- C8

(* C8: the Context7 service's GET /health answers exactly                  *)
(* {"status": "healthy", "service": "context7-mcp"}, in every state.       *)
C8_Context7Health ==
    (request.service = "context7" /\ request.route = "GET /health") =>
        /\ response.code = 200
        /\ response.body = [status |-> "healthy", service |-> "context7-mcp"]

C8_Witness ==
    /\ request.service = "context7" /\ request.route = "GET /health"
    /\ response.kind = "json"

\* ---------------------------------------------------------------------- C9

(* C9 as stated: no request changes the flag, and a request served again   *)
(* gets the response it got before.                                        *)
C9_SameResponseAlways ==
    [][/\ AGENTGATEWAY_AVAILABLE' = AGENTGATEWAY_AVAILABLE
       /\ (request' = request) => (response' = response)]_vars

(* C9 amended: no request changes the flag, 503 and 500 chats included,    *)
(* and a request served again gets the response it got before, except     *)
(* that a valid chat request with the dependency present answers 200 or    *)
(* 500 according to whether the external library's calls raise: with the   *)
(* same library outcome it too gets the same response.                     *)
C9_FlagFrozen ==
    [][/\ AGENTGATEWAY_AVAILABLE' = AGENTGATEWAY_AVAILABLE
       /\ (request' = request /\ chatLocals' = chatLocals) => (response' = response)
       /\ (request' = request /\ ~(IsChat /\ AGENTGATEWAY_AVAILABLE /\ BodyValid))
             => (response' = response)]_vars

C9_Witness ==
    /\ IsChat /\ AGENTGATEWAY_AVAILABLE
    /\ chatLocals.ctor.raised
    /\ response.code = 500

\* --------------------------------------------------------------------- C10

UnknownType == Sent("agent_type") /\ request.body.fields["agent_type"] \notin KnownTypes

(* What the handler does with the agent type and the defaults once it      *)
(* answers 200.                                                            *)
UnknownTypeKept ==
    /\ UnknownType =>
          /\ chatLocals.agent_type = "OPENAI_GPT"
          /\ response.body.agent_type = request.body.fields["agent_type"]
          /\ response.body.agent_type # S_openai
          /\ Contains(response.body.response, request.body.fields["agent_type"])
    /\ ~Sent("agent_type") =>
          /\ response.body.agent_type = S_openai
          /\ Contains(response.body.response, <<"' using ">> \o S_openai \o <<" model ">>)
    /\ ~Sent("model") =>
          /\ response.body.model = S_gpt35
          /\ Contains(response.body.response, <<" model ">> \o S_gpt35)

(* C10 as stated: with the dependency present an unknown agent_type is     *)
(* mapped to OPENAI_GPT and the request succeeds with 200, echoing the     *)
(* caller's string; omitted agent_type and model default to "openai" and   *)
(* "gpt-3.5-turbo".                                                        *)
C10_UnknownTypeSucceeds ==
    (IsChat /\ AGENTGATEWAY_AVAILABLE /\ BodyValid /\
     (UnknownType \/ ~Sent("agent_type") \/ ~Sent("model"))) =>
        (response.code = 200 /\ UnknownTypeKept)

(* C10 amended: with the dependency present an unknown agent_type is never *)
(* the cause of a rejection: the request answers 200 whenever the          *)
(* AgentGateway constructor and the AgentType lookup do not raise (500     *)
(* otherwise, as for a known type); on 200 the type was mapped to          *)
(* OPENAI_GPT while the response text and 'agent_type' carry the caller's  *)
(* string, and an omitted agent_type or model is "openai" or               *)
(* "gpt-3.5-turbo".                                                        *)
C10_UnknownTypeNotRejected ==
    (IsChat /\ AGENTGATEWAY_AVAILABLE /\ BodyValid /\
     (UnknownType \/ ~Sent("agent_type") \/ ~Sent("model"))) =>
        /\ (response.code = 200) <=> ~LibraryRaised
        /\ response.code \in {200, 500}
        /\ (response.code = 200) => UnknownTypeKept

C10_Witness ==
    /\ IsChat /\ AGENTGATEWAY_AVAILABLE /\ BodyValid
    /\ UnknownType /\ request.body.fields["agent_type"] = S_Groq
    /\ ~Sent("model")
    /\ response.code = 200
    /\ chatLocals.agent_type = "OPENAI_GPT"
    /\ response.body.agent_type = S_Groq

====
